---- MODULE Spec2Model ----
(***************************************************************************)
(* Model of src/second.py: second_for (single-pass scan keeping the two    *)
(* largest values) and second_sort (sort ascending, index -2).  Both       *)
(* functions are run, statement by statement, on the same input sequence   *)
(* so that their outcomes can be compared.                                 *)
(***************************************************************************)
EXTENDS Integers, Sequences, FiniteSets, TLC

\* ---------------------------------------------------------------- bounds
MaxLen == 3
MaxAbs == 3

Vals == (0 - MaxAbs)..MaxAbs

\* The inputs named in the specification's testable properties.
Examples == { <<5, 5>>, <<7>>, <<-5, -3>>, <<3, 1, 4, 1, 5, 9, 2, 6>> }

Inputs == (UNION { [1..n -> Vals] : n \in 0..MaxLen }) \cup Examples

\* ------------------------------------------------------------- second_for
\* first, second = -1, -1
SentinelLow == -1 - 100
Sentinel == -1

\* if val > first:
ShiftCond(val, f) == val > f

\* first, second = val, first
ShiftAssignNoShift(val, f, s) == <<val, s>>
ShiftAssignSwapped(val, f, s) == <<f, val>>
ShiftAssign(val, f, s) == <<val, f>>

\* elif val > second:   (reached only when the if-condition is false)
ElifCondStrict(val, f, s) == val < f /\ val > s
ElifCond(val, f, s) == ~ShiftCond(val, f) /\ val > s

\* second = val
ElifAssignNone(val, f, s) == <<f, s>>
ElifAssign(val, f, s) == <<f, val>>

\* one iteration of the loop body, as a function of the two slots
ForBody(f, s, val) ==
    IF ShiftCond(val, f) THEN ShiftAssign(val, f, s)
    ELSE IF ElifCond(val, f, s) THEN ElifAssign(val, f, s)
    ELSE <<f, s>>

RECURSIVE ForLoop(_, _, _)
ForLoop(f, s, seq) ==
    IF seq = <<>> THEN <<f, s>>
    ELSE LET fs == ForBody(f, s, Head(seq))
         IN  ForLoop(fs[1], fs[2], Tail(seq))

\* the whole function as a pure operator
SecondFor(seq) == ForLoop(Sentinel, Sentinel, seq)[2]

\* ------------------------------------------------------------ second_sort
\* position of seq[j] in the descending order of seq
RankDesc(seq, j) ==
    1 + Cardinality({ m \in DOMAIN seq :
                        seq[m] > seq[j] \/ (seq[m] = seq[j] /\ m < j) })

\* position of seq[j] in the ascending order of seq; equal elements keep
\* their input order (the sort is stable)
RankAsc(seq, j) ==
    1 + Cardinality({ m \in DOMAIN seq :
                        seq[m] < seq[j] \/ (seq[m] = seq[j] /\ m < j) })

SortedDesc(seq) ==
    [k \in 1..Len(seq) |-> seq[CHOOSE j \in DOMAIN seq : RankDesc(seq, j) = k]]

\* sorted(values): a new list, ascending, stable
Sorted(seq) ==
    [k \in 1..Len(seq) |-> seq[CHOOSE j \in DOMAIN seq : RankAsc(seq, j) = k]]

\* outcomes of a call
Pending == [kind |-> "pending"]
Return(v) == [kind |-> "return", val |-> v]
IndexError == [kind |-> "IndexError"]

\* the index expression of values[-2]
SecondLastIndex == -2

\* list subscription lst[k] with a negative index counted from the end
GetItemClamp(lst, k) ==
    LET n == Len(lst)
        j == IF k < 0 THEN k + n ELSE k
    IN  IF n = 0 THEN IndexError
        ELSE IF j < 0 THEN Return(lst[1])
        ELSE IF j >= n THEN Return(lst[n])
        ELSE Return(lst[j + 1])

GetItem(lst, k) ==
    LET n == Len(lst)
        j == IF k < 0 THEN k + n ELSE k
    IN  IF j < 0 \/ j >= n THEN IndexError ELSE Return(lst[j + 1])

\* ------------------------------------------------------------------ state
VARIABLES
    values,      \* the argument of both calls
    pcFor,       \* second_for: "loop" | "done"
    i,           \* second_for: 1-based position of the next val of the loop
    first,       \* second_for: local first
    second,      \* second_for: local second
    resFor,      \* second_for: outcome of the call
    pcSort,      \* second_sort: "sort" | "index" | "done"
    sortedVals,  \* second_sort: local values after line 12
    resSort      \* second_sort: outcome of the call

vars == <<values, pcFor, i, first, second, resFor, pcSort, sortedVals, resSort>>

forVars == <<pcFor, i, first, second, resFor>>
sortVars == <<pcSort, sortedVals, resSort>>

Init ==
    /\ values \in Inputs
    /\ pcFor = "loop"
    /\ i = 1
    /\ first = Sentinel
    /\ second = Sentinel
    /\ resFor = Pending
    /\ pcSort = "sort"
    /\ sortedVals = <<>>
    /\ resSort = Pending

\* -------------------------------------------------------- second_for steps
InLoop == pcFor = "loop" /\ i <= Len(values)

\* if val > first: first, second = val, first
ForShift ==
    /\ InLoop
    /\ ShiftCond(values[i], first)
    /\ first' = ShiftAssign(values[i], first, second)[1]
    /\ second' = ShiftAssign(values[i], first, second)[2]
    /\ i' = i + 1
    /\ UNCHANGED <<values, pcFor, resFor, sortVars>>

\* elif val > second: second = val
ForElif ==
    /\ InLoop
    /\ ~ShiftCond(values[i], first)
    /\ ElifCond(values[i], first, second)
    /\ first' = ElifAssign(values[i], first, second)[1]
    /\ second' = ElifAssign(values[i], first, second)[2]
    /\ i' = i + 1
    /\ UNCHANGED <<values, pcFor, resFor, sortVars>>

\* neither condition holds: next val
ForSkip ==
    /\ InLoop
    /\ ~ShiftCond(values[i], first)
    /\ ~ElifCond(values[i], first, second)
    /\ i' = i + 1
    /\ UNCHANGED <<values, pcFor, first, second, resFor, sortVars>>

\* return second
ForReturn ==
    /\ pcFor = "loop"
    /\ i > Len(values)
    /\ resFor' = Return(second)
    /\ pcFor' = "done"
    /\ UNCHANGED <<values, i, first, second, sortVars>>

ForNext == ForShift \/ ForElif \/ ForSkip \/ ForReturn

\* ------------------------------------------------------- second_sort steps
\* values = sorted(values)
SortSorted ==
    /\ pcSort = "sort"
    /\ sortedVals' = Sorted(values)
    /\ pcSort' = "index"
    /\ UNCHANGED <<values, forVars, resSort>>

\* return values[-2]
SortReturn ==
    /\ pcSort = "index"
    /\ GetItem(sortedVals, SecondLastIndex).kind = "return"
    /\ resSort' = GetItem(sortedVals, SecondLastIndex)
    /\ pcSort' = "done"
    /\ UNCHANGED <<values, forVars, sortedVals>>

\* values[-2] raises IndexError, which leaves the function
SortIndexError ==
    /\ pcSort = "index"
    /\ GetItem(sortedVals, SecondLastIndex).kind = "IndexError"
    /\ resSort' = IndexError
    /\ pcSort' = "done"
    /\ UNCHANGED <<values, forVars, sortedVals>>

SortNext == SortSorted \/ SortReturn \/ SortIndexError

Next ==
    \/ ForShift
    \/ ForElif
    \/ ForSkip
    \/ ForReturn
    \/ SortSorted
    \/ SortReturn
    \/ SortIndexError

Spec == Init /\ [][Next]_vars

\* Each call is sequential code with no suspension point: an enabled
\* statement is executed.
FairSpec == Spec /\ WF_vars(ForNext) /\ WF_vars(SortNext)

\* ------------------------------------------------- vocabulary of the claims
BothDone == pcFor = "done" /\ pcSort = "done"

Count(seq, x) == Cardinality({ k \in DOMAIN seq : seq[k] = x })
CountGT(seq, x) == Cardinality({ k \in DOMAIN seq : seq[k] > x })
CountGE(seq, x) == Cardinality({ k \in DOMAIN seq : seq[k] >= x })
Range(seq) == { seq[k] : k \in DOMAIN seq }

\* x is the k-th largest element of seq, counted with multiplicity
IsKthLargest(seq, x, k) ==
    /\ x \in Range(seq)
    /\ CountGT(seq, x) < k
    /\ CountGE(seq, x) >= k

Distinct(seq) == \A a, b \in DOMAIN seq : a # b => seq[a] # seq[b]
IsSortedAsc(seq) == \A a, b \in DOMAIN seq : a < b => seq[a] <= seq[b]
SameBag(s, t) ==
    /\ Len(s) = Len(t)
    /\ \A x \in Range(s) \cup Range(t) : Count(s, x) = Count(t, x)

\* the orderings of seq
Orderings(seq) ==
    { [k \in DOMAIN seq |-> seq[p[k]]] : p \in Permutations(DOMAIN seq) }

\* the values the scan has processed, with the two initial sentinels
Seen == SubSeq(values, 1, i - 1) \o <<-1, -1>>

\* C1: for every sequence of length >= 2 with pairwise distinct values, all
\* greater than -1, second_for returns the value second_sort returns.
C1_OracleAgreement ==
    ( /\ BothDone
      /\ Len(values) >= 2
      /\ Distinct(values)
      /\ \A k \in DOMAIN values : values[k] > -1 )
    => (resFor.kind = "return" /\ resSort.kind = "return" /\ resFor.val = resSort.val)

C1_Witness ==
    /\ BothDone
    /\ Len(values) = 3
    /\ Distinct(values)
    /\ \A k \in DOMAIN values : values[k] > -1
    /\ values[1] < values[2]
    /\ resFor.kind = "return"
    /\ resFor.val = values[1]

\* C2 as stated: for [x, x] with x > -1 (in particular [5, 5]) second_for
\* returns the sentinel -1 while second_sort returns x, so the two disagree.
C2_TieDivergenceAsStated ==
    ( /\ BothDone
      /\ Len(values) = 2
      /\ values[1] = values[2]
      /\ values[1] > -1 )
    => (resFor = Return(-1) /\ resSort = Return(values[1]) /\ resFor # resSort)

\* C2 amended: for [x, x] with x > -1 (in particular [5, 5]) second_for
\* returns x, the value second_sort returns; the two agree on this input.
C2_TieAgreement ==
    ( /\ BothDone
      /\ Len(values) = 2
      /\ values[1] = values[2]
      /\ values[1] > -1 )
    => (resFor = Return(values[1]) /\ resSort = Return(values[1]))

C2_Witness ==
    /\ BothDone
    /\ values = <<5, 5>>
    /\ resFor = Return(5)
    /\ resSort = Return(5)

\* C3: the value second_for returns depends only on the multiset of the
\* input: every ordering of the input yields the value this run returned.
C3_OrderInvariance ==
    pcFor = "done"
    => \A q \in Orderings(values) : Return(SecondFor(q)) = resFor

C3_Witness ==
    /\ pcFor = "done"
    /\ Len(values) = 3
    /\ values[2] < -1
    /\ values[1] > 0
    /\ values[3] = values[1]
    /\ resFor = Return(values[1])

\* C4: on the empty sequence and on every single-element sequence second_for
\* runs to its return statement and returns the sentinel -1.
C4_ShortInputSentinel ==
    /\ [](pcFor = "done" /\ Len(values) < 2 => resFor = Return(-1))
    /\ (Len(values) < 2 ~> (pcFor = "done" /\ resFor.kind = "return"))

C4_Witness ==
    /\ pcFor = "done"
    /\ Len(values) = 1
    /\ first = values[1]
    /\ first > -1
    /\ resFor = Return(-1)

\* C5: second_sort ends in IndexError (no value returned) if and only if the
\* input has fewer than two elements.
C5_SortIndexErrorIffShort ==
    pcSort = "done"
    => /\ resSort.kind \in {"return", "IndexError"}
       /\ resSort.kind = "IndexError" <=> Len(values) < 2

C5_Witness ==
    /\ pcSort = "done"
    /\ Len(values) = 1
    /\ resSort = IndexError

\* C6: when every element is below the sentinel -1 (for instance [-5, -3])
\* second_for returns -1, which is not an element of the input.
C6_SentinelCorruption ==
    (pcFor = "done" /\ \A k \in DOMAIN values : values[k] < -1)
    => (resFor = Return(-1) /\ resFor.val \notin Range(values))

C6_Witness ==
    /\ pcFor = "done"
    /\ values = <<-5, -3>>
    /\ resFor = Return(-1)

\* C7: for length n >= 2 second_sort returns the element at index n-2
\* (0-based) of the ascending sort of the input, the second largest counted
\* with multiplicity; the maximum itself when it occurs at least twice.
C7_SortSecondLargest ==
    (pcSort = "done" /\ Len(values) >= 2)
    => /\ resSort.kind = "return"
       /\ IsSortedAsc(sortedVals)
       /\ SameBag(sortedVals, values)
       /\ resSort.val = sortedVals[Len(values) - 1]
       /\ IsKthLargest(values, resSort.val, 2)
       /\ \A m \in Range(values) :
            (CountGT(values, m) = 0 /\ Count(values, m) >= 2) => resSort.val = m

C7_Witness ==
    /\ pcSort = "done"
    /\ Len(values) = 3
    /\ values[1] = values[3]
    /\ values[2] < values[1]
    /\ resSort = Return(values[1])

\* C8: on [3, 1, 4, 1, 5, 9, 2, 6] second_for returns 6 and second_sort
\* returns 6.
C8_UnsortedExample ==
    (BothDone /\ values = <<3, 1, 4, 1, 5, 9, 2, 6>>)
    => (resFor = Return(6) /\ resSort = Return(6))

C8_Witness ==
    /\ BothDone
    /\ values = <<3, 1, 4, 1, 5, 9, 2, 6>>
    /\ first = 9
    /\ resFor = Return(6)

\* C9: initially and after every iteration first >= second and first, second
\* are the largest and second largest (with multiplicity) of the processed
\* values together with two sentinels -1; an iteration whose value is not
\* greater than second changes neither slot.
C9_LoopInvariant ==
    /\ [](/\ first >= second
          /\ IsKthLargest(Seen, first, 1)
          /\ IsKthLargest(Seen, second, 2))
    /\ [][(InLoop /\ values[i] <= second /\ i' = i + 1)
          => (first' = first /\ second' = second)]_vars

C9_Witness ==
    /\ pcFor = "loop"
    /\ i = 4
    /\ values[3] < second
    /\ second < first
    /\ second > -1

\* C10: for every sequence of length >= 2 whose elements are all >= -1,
\* duplicates (also of the maximum) allowed, second_for returns the value
\* second_sort returns; outcomes differ only for inputs shorter than two
\* elements or holding an element below -1.
C10_AgreementWithDuplicates ==
    BothDone
    => ( resFor # resSort
         => (Len(values) < 2 \/ \E k \in DOMAIN values : values[k] < -1) )

C10_Witness ==
    /\ BothDone
    /\ Len(values) = 3
    /\ values[1] = values[3]
    /\ values[2] = -1
    /\ values[1] > 0
    /\ resFor = Return(values[1])
    /\ resSort = resFor

====
